---- MODULE Spec2Model ----
(***************************************************************************)
(* Model of the Flask CRUD application in src/app.py: one table, users,    *)
(* reached through Flask-SQLAlchemy by the request handlers add_user,      *)
(* view_user, update_user, delete_user and search_users.                   *)
(*                                                                         *)
(* A string is a sequence of one-character strings, so that strip(), len() *)
(* int() and LIKE are computed and not assumed.  The workers of the web    *)
(* server run handlers concurrently; a handler is cut into steps at its    *)
(* database accesses (a query, a commit), each of which the database runs  *)
(* atomically.  Each request has a session of its own: the object a        *)
(* handler loaded keeps the values it was loaded with until the commit.    *)
(***************************************************************************)
EXTENDS Integers, Sequences, FiniteSets, TLC

VARIABLES
  users,    \* the table users: id -> committed row
  clock,    \* datetime.utcnow, read by the created_at default of an INSERT
  pc,       \* per worker: where its handler stands
  route,    \* per worker: the handler it runs
  uid,      \* per worker: the <int:user_id> of the URL (0: none)
  form,     \* per worker: request.form as submitted (request.args for search)
  user,     \* per worker: the User object loaded by get_or_404
  resp,     \* per worker: status code, flashed message, caught exception, rows rendered
  issued,   \* history: every id an INSERT has been given
  raced     \* history: per worker, the workers whose pending commit of the same email overlapped its own

vars == <<users, clock, pc, route, uid, form, user, resp, issued, raced>>

\* ---------------------------------------------------------------- bounds

\* INSERTs committed in one behaviour (so ids and timestamps stay below it).
MaxCreates == 2

\* The workers handling requests concurrently.
Procs == {"w1", "w2"}

\* The ids a URL may name.
Ids == 1..MaxCreates

\* -------------------------------------------------------------- constants

MinNameLen == 2
MaxNameLen == 50
MinAge == 0
MaxAge == 150

\* --------------------------------------------------------------- strings

Whitespace == {" ", "\t", "\n"}

\* str.strip(): leading and trailing whitespace removed.
RECURSIVE LStrip(_)
LStrip(s) ==
  IF s # <<>> /\ Head(s) \in Whitespace THEN LStrip(Tail(s)) ELSE s

RECURSIVE RStrip(_)
RStrip(s) ==
  IF s # <<>> /\ s[Len(s)] \in Whitespace THEN RStrip(SubSeq(s, 1, Len(s) - 1)) ELSE s

Strip(s) == RStrip(LStrip(s))

Digits == <<"0", "1", "2", "3", "4", "5", "6", "7", "8", "9">>

IsDigit(c) == \E i \in 1..10 : Digits[i] = c

DigitVal(c) == (CHOOSE i \in 1..10 : Digits[i] = c) - 1

RECURSIVE DigitsVal(_)
DigitsVal(s) ==
  IF s = <<>> THEN 0 ELSE 10 * DigitsVal(SubSeq(s, 1, Len(s) - 1)) + DigitVal(s[Len(s)])

\* int(age) on a stripped string: an optional sign and one or more decimal
\* digits give the integer; anything else raises ValueError (ok = FALSE).
ParseInt(s) ==
  LET signed == s # <<>> /\ Head(s) \in {"-", "+"}
      body   == IF signed THEN Tail(s) ELSE s
  IN  IF body # <<>> /\ \A i \in 1..Len(body) : IsDigit(body[i])
      THEN [ok |-> TRUE, val |-> IF signed /\ Head(s) = "-" THEN 0 - DigitsVal(body) ELSE DigitsVal(body)]
      ELSE [ok |-> FALSE, val |-> 0]

UpperCase ==
  <<"A", "B", "C", "D", "E", "F", "G", "H", "I", "J", "K", "L", "M",
    "N", "O", "P", "Q", "R", "S", "T", "U", "V", "W", "X", "Y", "Z">>

LowerCase ==
  <<"a", "b", "c", "d", "e", "f", "g", "h", "i", "j", "k", "l", "m",
    "n", "o", "p", "q", "r", "s", "t", "u", "v", "w", "x", "y", "z">>

\* lower() of one character and of a string.
LowerChar(c) ==
  IF \E i \in 1..26 : UpperCase[i] = c
  THEN LowerCase[CHOOSE i \in 1..26 : UpperCase[i] = c]
  ELSE c

Lower(s) == [i \in 1..Len(s) |-> LowerChar(s[i])]

\* SQL LIKE: % matches any run of characters, _ any one character.
RECURSIVE Like(_, _)
Like(s, pat) ==
  IF pat = <<>> THEN s = <<>>
  ELSE IF Head(pat) = "%" THEN Like(s, Tail(pat)) \/ (s # <<>> /\ Like(Tail(s), pat))
  ELSE IF s = <<>> THEN FALSE
  ELSE IF Head(pat) = "_" THEN Like(Tail(s), Tail(pat))
  ELSE Head(s) = Head(pat) /\ Like(Tail(s), Tail(pat))

\* Column.ilike(pattern): lower(column) LIKE lower(pattern).
ILike(col, pat) == Like(Lower(col), Lower(pat))

\* ---------------------------------------------------------------- forms

Fields == {"first_name", "last_name", "email", "age", "city"}

\* request.form of a POST (the five fields) and request.args of /search (query).
MkForm(fn, ln, em, ag, ci) ==
  [first_name |-> fn, last_name |-> ln, email |-> em, age |-> ag, city |-> ci,
   query |-> <<>>]

NoForm == MkForm(<<>>, <<>>, <<>>, <<>>, <<>>)

\* request.form.get(field, '').strip() for the five fields.
Stripped(f) == [k \in Fields |-> Strip(f[k])]

BadLen(s) == Len(s) < MinNameLen \/ Len(s) > MaxNameLen

\* The block with "age < 0" for "age <= 0".
AddValidateZeroAge(f) ==
  LET s == Stripped(f)
      n == ParseInt(s.age)
  IN  IF \E k \in Fields : s[k] = <<>> THEN "All fields are required!"
      ELSE IF BadLen(s.first_name) THEN "First name must be between 2 and 50 characters!"
      ELSE IF BadLen(s.last_name) THEN "Last name must be between 2 and 50 characters!"
      ELSE IF ~n.ok THEN "Age must be a valid number!"
      ELSE IF n.val < MinAge \/ n.val > MaxAge THEN "Please enter a valid age (1-150)!"
      ELSE IF BadLen(s.city) THEN "City must be between 2 and 50 characters!"
      ELSE ""

\* The validation block of add_user, up to the first flash: the message
\* flashed, or "" when every check passes.
AddValidate(f) ==
  LET s == Stripped(f)
      n == ParseInt(s.age)
  IN  IF \E k \in Fields : s[k] = <<>> THEN "All fields are required!"
      ELSE IF BadLen(s.first_name) THEN "First name must be between 2 and 50 characters!"
      ELSE IF BadLen(s.last_name) THEN "Last name must be between 2 and 50 characters!"
      ELSE IF ~n.ok THEN "Age must be a valid number!"
      ELSE IF n.val <= MinAge \/ n.val > MaxAge THEN "Please enter a valid age (1-150)!"
      ELSE IF BadLen(s.city) THEN "City must be between 2 and 50 characters!"
      ELSE ""

\* The same block of update_user.
UpdateValidate(f) ==
  LET s == Stripped(f)
      n == ParseInt(s.age)
  IN  IF \E k \in Fields : s[k] = <<>> THEN "All fields are required!"
      ELSE IF BadLen(s.first_name) THEN "First name must be between 2 and 50 characters!"
      ELSE IF BadLen(s.last_name) THEN "Last name must be between 2 and 50 characters!"
      ELSE IF ~n.ok THEN "Age must be a valid number!"
      ELSE IF n.val <= MinAge \/ n.val > MaxAge THEN "Please enter a valid age (1-150)!"
      ELSE IF BadLen(s.city) THEN "City must be between 2 and 50 characters!"
      ELSE ""

\* The values taken from request.form again, without the strip().
ValuesUnstripped(f) ==
  [first_name |-> f.first_name, last_name |-> f.last_name, email |-> f.email,
   age |-> ParseInt(Strip(f.age)).val, city |-> f.city]

\* The values the handlers hold after validation: the stripped strings, age = int(age).
Values(f) ==
  LET s == Stripped(f)
  IN  [first_name |-> s.first_name, last_name |-> s.last_name, email |-> s.email,
       age |-> ParseInt(s.age).val, city |-> s.city]

\* ---------------------------------------------------------------- table

Columns == Fields \cup {"id", "created_at"}

\* A User object that stands for "no row".
NoUser ==
  [id |-> 0, first_name |-> <<>>, last_name |-> <<>>, email |-> <<>>, age |-> 0,
   city |-> <<>>, created_at |-> 0]

NoResp == [status |-> 0, flash |-> "", exc |-> "", rows |-> {}]

Max(S) == CHOOSE m \in S : \A x \in S : x <= m

Min(S) == CHOOSE m \in S : \A x \in S : m <= x

\* id = Column(Integer, primary_key=True) on SQLite: an INTEGER PRIMARY KEY
\* without AUTOINCREMENT, so an INSERT takes one more than the largest id in
\* the table, and 1 in an empty table.
NewId(tbl) == IF DOMAIN tbl = {} THEN 1 ELSE Max(DOMAIN tbl) + 1

\* The table without its unique index on email.
UniqueViolationNoIndex(tbl, i, e) == FALSE

\* email = Column(String(120), unique=True): would giving row i the email e
\* leave two rows with it?
UniqueViolation(tbl, i, e) == \E j \in DOMAIN tbl \ {i} : tbl[j].email = e

\* User.query.filter_by(email=e).first(): the id of the row found, 0 for None.
FirstByEmail(tbl, e) ==
  LET found == {i \in DOMAIN tbl : tbl[i].email = e}
  IN  IF found = {} THEN 0 ELSE Min(found)

\* User.query.get_or_404(i): the row as a User object, NoUser for the 404.
Get(tbl, i) == IF i \in DOMAIN tbl THEN tbl[i] ELSE NoUser

\* db.session.add(User(...)); db.session.commit(): the exception raised ("" for
\* none) and the table afterwards.
Insert(tbl, v, now) ==
  LET i == NewId(tbl)
  IN  IF UniqueViolation(tbl, i, v.email)
      THEN [exc |-> "IntegrityError", tbl |-> tbl]
      ELSE [exc |-> "",
            tbl |-> [j \in DOMAIN tbl \cup {i} |->
                       IF j = i
                       THEN [id |-> i, first_name |-> v.first_name, last_name |-> v.last_name,
                             email |-> v.email, age |-> v.age, city |-> v.city,
                             created_at |-> now]
                       ELSE tbl[j]]]

\* The attributes of the loaded object u that the five assignments changed: the
\* session's unit of work puts exactly these columns in its UPDATE.
Dirty(u, v) == {k \in Fields : u[k] # v[k]}

\* The five assignments to the loaded object u and db.session.commit(): no
\* statement when nothing changed; else UPDATE users SET <dirty columns> WHERE
\* id = u.id, which raises StaleDataError when it matches no row and
\* IntegrityError when it breaks the unique email.
Flush(tbl, u, v) ==
  LET d == Dirty(u, v)
  IN  IF d = {} THEN [exc |-> "", tbl |-> tbl]
      ELSE IF u.id \notin DOMAIN tbl THEN [exc |-> "StaleDataError", tbl |-> tbl]
      ELSE IF "email" \in d /\ UniqueViolation(tbl, u.id, v.email)
           THEN [exc |-> "IntegrityError", tbl |-> tbl]
      ELSE [exc |-> "",
            tbl |-> [tbl EXCEPT ![u.id] =
                       [k \in Columns |-> IF k \in d THEN v[k] ELSE tbl[u.id][k]]]]

\* db.session.delete(user); db.session.commit(): DELETE FROM users WHERE id = i
\* (a DELETE that matches no row only warns).
Delete(tbl, i) == [j \in DOMAIN tbl \ {i} |-> tbl[j]]

\* The query of search_users for a non-empty query string: the ids of the rows found.
SearchRows(tbl, q) ==
  LET pat == <<"%">> \o q \o <<"%">>
  IN  {i \in DOMAIN tbl :
         \/ ILike(tbl[i].first_name, pat)
         \/ ILike(tbl[i].last_name, pat)
         \/ ILike(tbl[i].city, pat)}

\* ------------------------------------------------------------- requests

Pending == {"add_commit", "update_commit"}

\* The workers whose commit of the email e is pending beside p's.
Rivals(p, e) == {q \in Procs \ {p} : pc[q] \in Pending /\ Values(form[q]).email = e}

\* History only: p's commit of e becomes pending.
NoteRace(p, e) ==
  raced' = [q \in Procs |->
              IF q = p THEN Rivals(p, e)
              ELSE IF q \in Rivals(p, e) THEN raced[q] \cup {p}
              ELSE raced[q]]

Finish(p, r) ==
  /\ pc' = [pc EXCEPT ![p] = "done"]
  /\ resp' = [resp EXCEPT ![p] = r]

EmailExists == "Email already exists! Please use a different email."

\* The flash without the return that follows it: the handler goes on to its try block.
RejectNoReturn(p, msg) ==
  /\ resp' = [resp EXCEPT ![p] = [NoResp EXCEPT !.status = 200, !.flash = msg]]
  /\ pc' = [pc EXCEPT ![p] = IF pc[p] = "idle" THEN "add_commit" ELSE "update_commit"]
  /\ UNCHANGED raced

\* flash(msg, 'error'); return render_template(...): the form is shown again.
Reject(p, msg) ==
  /\ Finish(p, [NoResp EXCEPT !.status = 200, !.flash = msg])
  /\ UNCHANGED raced

\* The pre-check of add_user that finds no row.
AddEmailTakenNever(tbl, e) == FALSE

\* add_user: existing_user is not None.
AddEmailTaken(tbl, e) == FirstByEmail(tbl, e) # 0

\* The pre-check of update_user without its "!= user_id".
UpdateEmailTakenAnyRow(tbl, e, i) == FirstByEmail(tbl, e) # 0

\* update_user: existing_user and existing_user.id != user_id.
UpdateEmailTaken(tbl, e, i) == FirstByEmail(tbl, e) # 0 /\ FirstByEmail(tbl, e) # i

\* POST /add, from request.form to the uniqueness query.
AddUserPost(p, f) ==
  /\ pc[p] = "idle"
  /\ clock + Cardinality({q \in Procs : pc[q] = "add_commit"}) < MaxCreates
  /\ route' = [route EXCEPT ![p] = "add"]
  /\ form' = [form EXCEPT ![p] = f]
  /\ UNCHANGED <<users, clock, uid, user, issued>>
  /\ IF AddValidate(f) # "" THEN Reject(p, AddValidate(f))
     ELSE IF AddEmailTaken(users, Values(f).email) THEN Reject(p, EmailExists)
     ELSE /\ pc' = [pc EXCEPT ![p] = "add_commit"]
          /\ NoteRace(p, Values(f).email)
          /\ UNCHANGED resp

\* The try block with an except branch that rolls back and redirects as on success.
AddUserCommitSwallowsError(p) ==
  /\ pc[p] = "add_commit"
  /\ LET r == Insert(users, Values(form[p]), clock)
     IN  /\ users' = r.tbl
         /\ clock' = IF r.exc = "" THEN clock + 1 ELSE clock
         /\ issued' = IF r.exc = "" THEN issued \cup {NewId(users)} ELSE issued
         /\ Finish(p, [NoResp EXCEPT !.status = 302, !.flash = "User added successfully!"])
  /\ UNCHANGED <<route, uid, form, user, raced>>

\* POST /add, the try block: the INSERT, its commit, and the except branch.
AddUserCommit(p) ==
  /\ pc[p] = "add_commit"
  /\ LET r == Insert(users, Values(form[p]), clock)
     IN  /\ users' = r.tbl
         /\ IF r.exc = ""
            THEN /\ clock' = clock + 1
                 /\ issued' = issued \cup {NewId(users)}
                 /\ Finish(p, [NoResp EXCEPT !.status = 302, !.flash = "User added successfully!"])
            ELSE /\ UNCHANGED <<clock, issued>>
                 /\ Finish(p, [NoResp EXCEPT !.status = 200, !.flash = "Error adding user",
                                 !.exc = r.exc])
  /\ UNCHANGED <<route, uid, form, user, raced>>

\* GET /view/<id>.
ViewUser(p, i) ==
  /\ pc[p] = "idle"
  /\ route' = [route EXCEPT ![p] = "view"]
  /\ uid' = [uid EXCEPT ![p] = i]
  /\ user' = [user EXCEPT ![p] = Get(users, i)]
  /\ IF Get(users, i) = NoUser
     THEN Finish(p, [NoResp EXCEPT !.status = 404])
     ELSE Finish(p, [NoResp EXCEPT !.status = 200, !.rows = {i}])
  /\ UNCHANGED <<users, clock, form, issued, raced>>

\* The load with get() for get_or_404(): a missing row does not end the request.
UpdateUserLoadNo404(p, i) ==
  /\ pc[p] = "idle"
  /\ route' = [route EXCEPT ![p] = "update"]
  /\ uid' = [uid EXCEPT ![p] = i]
  /\ user' = [user EXCEPT ![p] = Get(users, i)]
  /\ pc' = [pc EXCEPT ![p] = "update_post"]
  /\ UNCHANGED <<users, clock, form, resp, issued, raced>>

\* /update/<id>: get_or_404.
UpdateUserLoad(p, i) ==
  /\ pc[p] = "idle"
  /\ route' = [route EXCEPT ![p] = "update"]
  /\ uid' = [uid EXCEPT ![p] = i]
  /\ user' = [user EXCEPT ![p] = Get(users, i)]
  /\ IF Get(users, i) = NoUser
     THEN Finish(p, [NoResp EXCEPT !.status = 404])
     ELSE /\ pc' = [pc EXCEPT ![p] = "update_post"]
          /\ UNCHANGED resp
  /\ UNCHANGED <<users, clock, form, issued, raced>>

\* POST /update/<id>, from request.form to the uniqueness query.
UpdateUserPost(p, f) ==
  /\ pc[p] = "update_post"
  /\ form' = [form EXCEPT ![p] = f]
  /\ UNCHANGED <<users, clock, route, uid, user, issued>>
  /\ IF UpdateValidate(f) # "" THEN Reject(p, UpdateValidate(f))
     ELSE IF UpdateEmailTaken(users, Values(f).email, uid[p]) THEN Reject(p, EmailExists)
     ELSE /\ pc' = [pc EXCEPT ![p] = "update_commit"]
          /\ NoteRace(p, Values(f).email)
          /\ UNCHANGED resp

\* POST /update/<id>, the try block: the assignments, the commit, the except branch.
UpdateUserCommit(p) ==
  /\ pc[p] = "update_commit"
  /\ LET r == Flush(users, user[p], Values(form[p]))
     IN  /\ users' = r.tbl
         /\ IF r.exc = ""
            THEN Finish(p, [NoResp EXCEPT !.status = 302, !.flash = "User updated successfully!"])
            ELSE Finish(p, [NoResp EXCEPT !.status = 200, !.flash = "Error updating user",
                              !.exc = r.exc])
  /\ UNCHANGED <<clock, route, uid, form, user, issued, raced>>

\* GET /delete/<id>: get_or_404.
DeleteUserLoad(p, i) ==
  /\ pc[p] = "idle"
  /\ route' = [route EXCEPT ![p] = "delete"]
  /\ uid' = [uid EXCEPT ![p] = i]
  /\ user' = [user EXCEPT ![p] = Get(users, i)]
  /\ IF Get(users, i) = NoUser
     THEN Finish(p, [NoResp EXCEPT !.status = 404])
     ELSE /\ pc' = [pc EXCEPT ![p] = "delete_commit"]
          /\ UNCHANGED resp
  /\ UNCHANGED <<users, clock, form, issued, raced>>

\* GET /delete/<id>, the try block and the redirect.
DeleteUserCommit(p) ==
  /\ pc[p] = "delete_commit"
  /\ users' = Delete(users, uid[p])
  /\ Finish(p, [NoResp EXCEPT !.status = 302, !.flash = "User deleted successfully!"])
  /\ UNCHANGED <<clock, route, uid, form, user, issued, raced>>

\* GET /search?query=q.
SearchUsers(p, q) ==
  /\ pc[p] = "idle"
  /\ route' = [route EXCEPT ![p] = "search"]
  /\ form' = [form EXCEPT ![p] = [NoForm EXCEPT !.query = q]]
  /\ Finish(p, [NoResp EXCEPT !.status = 200,
                  !.rows = IF Strip(q) # <<>> THEN SearchRows(users, Strip(q)) ELSE {}])
  /\ UNCHANGED <<users, clock, uid, user, issued, raced>>

\* The response is sent; the worker takes the next request with a fresh session.
Respond(p) ==
  /\ pc[p] = "done"
  /\ pc' = [pc EXCEPT ![p] = "idle"]
  /\ route' = [route EXCEPT ![p] = "none"]
  /\ uid' = [uid EXCEPT ![p] = 0]
  /\ form' = [form EXCEPT ![p] = NoForm]
  /\ user' = [user EXCEPT ![p] = NoUser]
  /\ resp' = [resp EXCEPT ![p] = NoResp]
  /\ raced' = [q \in Procs |-> IF q = p THEN {} ELSE raced[q] \ {p}]
  /\ UNCHANGED <<users, clock, issued>>

\* --------------------------------------------------------------- inputs

Sp == " "

AnnX == MkForm(<<Sp, "A", "n", "n">>, <<"L", "e", "e">>, <<"x", "@", "m">>, <<"3", "0">>,
               <<"R", "o", "m", "e", Sp>>)

BobX == MkForm(<<"B", "o", "b">>, <<"N", "g">>, <<"x", "@", "m">>, <<"2", "5">>,
               <<"O", "s", "l", "o">>)

BobY == MkForm(<<"B", "o", "b">>, <<"N", "g">>, <<"y", "@", "m">>, <<"2", "5">>,
               <<"O", "s", "l", "o">>)

NoCity == MkForm(<<"A", "n", "n">>, <<"L", "e", "e">>, <<"y", "@", "m">>, <<"3", "0">>, <<Sp>>)

OldY == MkForm(<<"A", "n", "n">>, <<"L", "e", "e">>, <<"y", "@", "m">>, <<"1", "5", "1">>,
               <<"R", "o", "m", "e">>)

\* The forms submitted to /add and /update.
Forms == {AnnX, BobX, BobY, NoCity, OldY}

\* The query strings sent to /search.
Queries == {<<>>, <<Sp, Sp>>, <<"N", "N">>, <<"l", "o", Sp>>, <<"%">>, <<"z", "z">>}

\* ---------------------------------------------------------------- system

Init ==
  /\ users = <<>>
  /\ clock = 0
  /\ pc = [p \in Procs |-> "idle"]
  /\ route = [p \in Procs |-> "none"]
  /\ uid = [p \in Procs |-> 0]
  /\ form = [p \in Procs |-> NoForm]
  /\ user = [p \in Procs |-> NoUser]
  /\ resp = [p \in Procs |-> NoResp]
  /\ issued = {}
  /\ raced = [p \in Procs |-> {}]

Next ==
  \E p \in Procs :
    \/ \E f \in Forms : AddUserPost(p, f)
    \/ AddUserCommit(p)
    \/ \E i \in Ids : ViewUser(p, i)
    \/ \E i \in Ids : UpdateUserLoad(p, i)
    \/ \E f \in Forms : UpdateUserPost(p, f)
    \/ UpdateUserCommit(p)
    \/ \E i \in Ids : DeleteUserLoad(p, i)
    \/ DeleteUserCommit(p)
    \/ \E q \in Queries : SearchUsers(p, q)
    \/ Respond(p)

Spec == Init /\ [][Next]_vars

\* ------------------------------------------------- the validators alone

Rep(c, n) == [i \in 1..n |-> c]

\* Names and cities around the limits 2 and 50: empty, blank, one character
\* (padded), two, fifty (padded), fifty-one.
NameInputs ==
  {<<>>, <<Sp>>, <<Sp, "a", Sp>>, <<"a", "b">>, <<Sp>> \o Rep("a", 50) \o <<Sp>>, Rep("a", 51)}

LastNameInputs == {<<Sp, Sp>>, <<"b">>, <<"L", "e", "e">>, Rep("b", 50), Rep("b", 51)}

CityInputs == {<<>>, <<"c">>, <<"R", "o", "m", "e", Sp>>, Rep("c", 50), Rep("c", 51)}

EmailInputs == {<<>>, <<"x", "@", "m">>, <<"z", "@", "m">>}

\* Age texts with what they denote: int tells whether the text is an integer.
AgeCases ==
  {[text |-> <<"a", "b", "c">>, int |-> FALSE, val |-> 0],
   [text |-> <<"1", ".", "5">>, int |-> FALSE, val |-> 0],
   [text |-> <<"3", Sp, "0">>, int |-> FALSE, val |-> 0],
   [text |-> <<"-">>, int |-> FALSE, val |-> 0],
   [text |-> <<"0">>, int |-> TRUE, val |-> 0],
   [text |-> <<"1">>, int |-> TRUE, val |-> 1],
   [text |-> <<"1", "5", "0">>, int |-> TRUE, val |-> 150],
   [text |-> <<"1", "5", "1">>, int |-> TRUE, val |-> 151],
   [text |-> <<"-", "5">>, int |-> TRUE, val |-> 0 - 5],
   [text |-> <<"+", "7">>, int |-> TRUE, val |-> 7],
   [text |-> <<"0", "3", "0">>, int |-> TRUE, val |-> 30]}

AgeInputs == {<<>>, <<Sp, "1", Sp>>} \cup {c.text : c \in AgeCases}

ValidatorForms ==
  {MkForm(fn, ln, em, ag, ci) :
     fn \in NameInputs, ln \in LastNameInputs, em \in EmailInputs, ag \in AgeInputs,
     ci \in CityInputs}

\* The table after one Create.
InitValidator ==
  /\ users = Insert(<<>>, Values(AnnX), 0).tbl
  /\ clock = 1
  /\ issued = {1}
  /\ pc = [p \in Procs |-> "idle"]
  /\ route = [p \in Procs |-> "none"]
  /\ uid = [p \in Procs |-> 0]
  /\ form = [p \in Procs |-> NoForm]
  /\ user = [p \in Procs |-> NoUser]
  /\ resp = [p \in Procs |-> NoResp]
  /\ raced = [p \in Procs |-> {}]

\* No other worker has a request in hand.
Alone(p) == \A q \in Procs \ {p} : pc[q] = "idle"

\* One request at a time, up to the end of its validation and pre-check.
NextValidator ==
  \E p \in Procs :
    \/ Alone(p) /\ \E f \in ValidatorForms : AddUserPost(p, f)
    \/ Alone(p) /\ \E i \in Ids : UpdateUserLoad(p, i)
    \/ Alone(p) /\ \E f \in ValidatorForms : UpdateUserPost(p, f)

SpecValidator == InitValidator /\ [][NextValidator]_vars

\* ------------------------------------------------ fields at their limits

\* Emails of 120 and of 121 characters.
Email120 == Rep("e", 118) \o <<"@", "m">>

Email121 == Rep("e", 119) \o <<"@", "m">>

\* Every name of fifty characters (padded), age 1.
AtMost == MkForm(<<Sp>> \o Rep("a", 50) \o <<Sp>>, Rep("b", 50), <<"x", "@", "m">>, <<Sp, "1">>,
                 Rep("c", 50) \o <<Sp>>)

\* Every name of two characters, age 150, an email of 120 characters.
AtLeast == MkForm(<<"a", "b">>, <<Sp, "N", "g">>, <<Sp>> \o Email120, <<"1", "5", "0">>,
                  <<"c", "d", Sp>>)

\* An email of 121 characters, the other fields plain.
LongEmail == MkForm(<<"A", "n", "n">>, <<"L", "e", "e">>, Email121 \o <<Sp>>, <<"3", "0">>,
                    <<"R", "o", "m", "e">>)

\* The forms above, and each with one field just outside its limit.
LimitForms ==
  {AtMost, AtLeast, LongEmail,
   [AtMost EXCEPT !.first_name = Rep("a", 51)],
   [AtMost EXCEPT !.last_name = Rep("b", 51)],
   [AtMost EXCEPT !.city = Rep("c", 51)],
   [AtMost EXCEPT !.age = <<"0">>],
   [AtLeast EXCEPT !.first_name = <<Sp, "a", Sp>>],
   [AtLeast EXCEPT !.last_name = <<"N", Sp>>],
   [AtLeast EXCEPT !.city = <<Sp, "c">>],
   [AtLeast EXCEPT !.age = <<"1", "5", "1">>]}

\* Create and Update requests of two workers, with the forms at the limits.
NextLimits ==
  \E p \in Procs :
    \/ \E f \in LimitForms : AddUserPost(p, f)
    \/ AddUserCommit(p)
    \/ \E i \in Ids : UpdateUserLoad(p, i)
    \/ \E f \in LimitForms : UpdateUserPost(p, f)
    \/ UpdateUserCommit(p)
    \/ Respond(p)

SpecLimits == Init /\ [][NextLimits]_vars

\* ---------------------------------------------------------------- claims

\* The request of p has ended with its change committed (the redirect to the index).
Succeeded(p) == pc[p] = "done" /\ route[p] \in {"add", "update"} /\ resp[p].status = 302

\* The rows holding the email e.
Owners(tbl, e) == {i \in DOMAIN tbl : tbl[i].email = e}

\* C1: in every reachable state, whatever the interleaving of Create, Update
\* and Delete requests, no two rows of the table have the same email.
C1_EmailUnique ==
  \A i, j \in DOMAIN users : i # j => users[i].email # users[j].email

\* Two rows live, and a commit that raced for a taken email was refused.
C1_Witness ==
  /\ Cardinality(DOMAIN users) = 2
  /\ \E p \in Procs : pc[p] = "done" /\ resp[p].exc = "IntegrityError"

\* C2 (as claimed): of two requests that both passed the email pre-check for
\* the same email and whose pending commits overlapped, exactly one succeeds;
\* the other ends in a failure, and the table holds the email once, in a row
\* carrying the winner's five values.
C2_ExactlyOneCommitSucceeds ==
  \A p, q \in Procs :
    (p # q /\ q \in raced[p] /\ pc[p] = "done" /\ pc[q] = "done")
      => /\ Succeeded(p) # Succeeded(q)
         /\ Succeeded(p) =>
              /\ resp[q].status = 200 /\ resp[q].flash # ""
              /\ \E i \in DOMAIN users :
                   /\ Owners(users, Values(form[p]).email) = {i}
                   /\ \A k \in Fields : users[i][k] = Values(form[p])[k]

\* C3 (as claimed): a Create or Update refused by the unique index at commit
\* shows the message of the pre-check, "Email already exists!".
C3_ConstraintFailureIsDuplicateEmail ==
  \A p \in Procs :
    (pc[p] = "done" /\ resp[p].exc = "IntegrityError") => resp[p].flash = EmailExists

\* C4: a Create whose fields pass validation and whose email is the email of
\* a row of the table ends with the duplicate-email message, and the table is
\* unchanged.
C4_CreateDuplicateRejected ==
  [][\A p \in Procs :
       (/\ pc[p] = "idle" /\ route'[p] = "add"
        /\ AddValidate(form'[p]) = ""
        /\ Owners(users, Strip(form'[p].email)) # {})
         => (pc'[p] = "done" /\ resp'[p].flash = EmailExists /\ resp'[p].status = 200
             /\ users' = users)]_vars

\* A Create was refused as a duplicate while the row owning the email is live.
C4_Witness ==
  \E p \in Procs :
    /\ pc[p] = "done" /\ route[p] = "add" /\ resp[p].flash = EmailExists
    /\ Owners(users, Strip(form[p].email)) # {}

\* C5: an Update of an existing row with valid fields ends with the
\* duplicate-email message exactly when another row owns the email, and then
\* the table is unchanged; an Update committing the email its row holds succeeds.
C5_UpdateDuplicateIffOtherOwner ==
  [][\A p \in Procs :
       /\ (pc[p] = "update_post" /\ pc'[p] # "update_post" /\ UpdateValidate(form'[p]) = "")
            => /\ (pc'[p] = "done" /\ resp'[p].flash = EmailExists)
                    <=> (Owners(users, Strip(form'[p].email)) \ {uid[p]} # {})
               /\ pc'[p] = "done" => users' = users
       /\ (/\ pc[p] = "update_commit" /\ pc'[p] = "done"
           /\ uid[p] \in Owners(users, Strip(form[p].email)))
            => /\ resp'[p].status = 302 /\ resp'[p].exc = ""
               /\ uid[p] \in Owners(users', Strip(form[p].email))]_vars

\* One Update kept its row's email and succeeded; another asked for the email
\* of a different row and was refused.
C5_Witness ==
  \E p, q \in Procs :
    /\ route[p] = "update" /\ Succeeded(p) /\ Values(form[p]).email = user[p].email
    /\ route[q] = "update" /\ pc[q] = "done" /\ resp[q].flash = EmailExists
    /\ Owners(users, Values(form[q]).email) \ {uid[q]} # {}

\* C2 (amended): among requests that passed the pre-check for the same
\* email, a commit that would give the email to a second row (an INSERT, or an
\* UPDATE that sets the email, while another row holds it) fails: the request
\* ends in a failure, never a success, and the table is left as it was.
C2_SecondOwnerRefused ==
  [][\A p \in Procs :
       (/\ pc[p] \in Pending /\ pc'[p] = "done"
        /\ route[p] = "add" \/ user[p].email # Values(form[p]).email
        /\ Owners(users, Values(form[p]).email) \ {uid[p]} # {})
         => (/\ resp'[p].status = 200 /\ resp'[p].exc # "" /\ resp'[p].flash # ""
             /\ users' = users)]_vars

\* Two requests raced for one email for two different rows: one committed, the
\* other was refused by the unique index, and one row holds the email.
C2_Witness ==
  \E p, q \in Procs :
    /\ q \in raced[p] /\ Succeeded(p)
    /\ pc[q] = "done" /\ resp[q].exc = "IntegrityError"
    /\ Cardinality(Owners(users, Values(form[q]).email)) = 1

ValidationMessages ==
  {"All fields are required!",
   "First name must be between 2 and 50 characters!",
   "Last name must be between 2 and 50 characters!",
   "Age must be a valid number!",
   "Please enter a valid age (1-150)!",
   "City must be between 2 and 50 characters!"}

\* The claim's validator: the first failing check in the order presence,
\* first name, last name, age format, age range, city; "" when none fails.
C6_FirstFailing(f) ==
  LET t == [k \in Fields |-> Strip(f[k])]
      outside(s) == ~(2 <= Len(s) /\ Len(s) <= 50)
      a == CHOOSE c \in AgeCases : c.text = t.age
  IN  IF \E k \in Fields : Len(t[k]) = 0 THEN "All fields are required!"
      ELSE IF outside(t.first_name) THEN "First name must be between 2 and 50 characters!"
      ELSE IF outside(t.last_name) THEN "Last name must be between 2 and 50 characters!"
      ELSE IF ~a.int THEN "Age must be a valid number!"
      ELSE IF ~(1 <= a.val /\ a.val <= 150) THEN "Please enter a valid age (1-150)!"
      ELSE IF outside(t.city) THEN "City must be between 2 and 50 characters!"
      ELSE ""

\* C6: in Create and in Update the outcome of validation is the first failing
\* check of the fixed order (presence; first name, last name length; age
\* format, then range 1..150; city length), and the fields are accepted only
\* when no check fails.
C6_ValidatorOrder ==
  \A p \in Procs :
    (route[p] = "add" \/ (route[p] = "update" /\ pc[p] \in {"update_commit", "done"}
                            /\ resp[p].status # 404))
      => IF C6_FirstFailing(form[p]) # ""
         THEN pc[p] = "done" /\ resp[p].flash = C6_FirstFailing(form[p])
         ELSE resp[p].flash \notin ValidationMessages

\* An Update was refused for the age 151 although its city is too long too.
C6_Witness ==
  \E p \in Procs :
    /\ route[p] = "update" /\ pc[p] = "done"
    /\ form[p].age = <<"1", "5", "1">> /\ Len(form[p].city) = 51
    /\ resp[p].flash = "Please enter a valid age (1-150)!"

\* C7: a Create or Update whose fields the validator rejects ends there with
\* the rejection, and no step of the request changes the table.
C7_RejectedLeavesStore ==
  [][\A p \in Procs :
       (/\ pc[p] # pc'[p]
        /\ \/ route'[p] = "add" /\ AddValidate(form'[p]) # ""
           \/ route'[p] = "update" /\ pc[p] # "idle" /\ UpdateValidate(form'[p]) # "")
         => (/\ users' = users
             /\ pc'[p] = "done"
             /\ resp'[p].flash \in ValidationMessages)]_vars

\* A Create and an Update were both rejected by the validator, with a row in the table.
C7_Witness ==
  \E p, q \in Procs :
    /\ route[p] = "add" /\ pc[p] = "done" /\ resp[p].flash \in ValidationMessages
    /\ route[q] = "update" /\ pc[q] = "done" /\ resp[q].flash \in ValidationMessages
    /\ users # <<>>

\* C8 (as claimed): the id given to a new row was never given before.
C8_IdsNeverReused ==
  [][\A i \in DOMAIN users' \ DOMAIN users : i \notin issued]_vars

\* C9 (as claimed): a successful Update sets the five fields of its row to the
\* submitted values and leaves the row's id and created_at, the set of rows
\* and every other row as they were.
C9_UpdateReplacesAllFields ==
  [][\A p \in Procs :
       (pc[p] = "update_commit" /\ pc'[p] = "done" /\ resp'[p].status = 302)
         => (/\ uid[p] \in DOMAIN users
             /\ DOMAIN users' = DOMAIN users
             /\ \A k \in Fields : users'[uid[p]][k] = Values(form[p])[k]
             /\ users'[uid[p]].id = uid[p]
             /\ users'[uid[p]].created_at = users[uid[p]].created_at
             /\ \A j \in DOMAIN users \ {uid[p]} : users'[j] = users[j])]_vars

\* s contains q, letter case ignored.
Contains(s, q) ==
  \E k \in 0..(Len(s) - Len(q)) : Lower(SubSeq(s, k + 1, k + Len(q))) = Lower(q)

\* C10 (as claimed): Search with a query empty after trimming returns nothing;
\* otherwise it returns exactly the rows whose first name, last name or city
\* contains the query, letter case ignored.
C10_SearchExact ==
  [][\A p \in Procs :
       (pc[p] = "idle" /\ route'[p] = "search")
         => LET q == Strip(form'[p].query)
            IN  resp'[p].rows =
                  IF q = <<>> THEN {}
                  ELSE {i \in DOMAIN users :
                          \/ Contains(users[i].first_name, q)
                          \/ Contains(users[i].last_name, q)
                          \/ Contains(users[i].city, q)}]_vars

\* C11: a Read, Update or Delete of an id that is not in the table, one just
\* deleted included, ends with not-found (404) and leaves the table unchanged;
\* Update answers so before it looks at the submitted fields, so no
\* validation message is flashed.
C11_MissingIdNotFound ==
  [][\A p \in Procs :
       (/\ pc[p] = "idle" /\ route'[p] \in {"view", "update", "delete"}
        /\ uid'[p] \notin DOMAIN users)
         => (/\ pc'[p] = "done"
             /\ resp'[p].status = 404 /\ resp'[p].flash = "" /\ resp'[p].rows = {}
             /\ form'[p] = NoForm
             /\ users' = users)]_vars

\* A Delete of a row succeeded and an Update of the same id, now missing, was answered 404.
C11_Witness ==
  \E p, q \in Procs :
    /\ route[q] = "delete" /\ pc[q] = "done" /\ resp[q].status = 302
    /\ route[p] = "update" /\ pc[p] = "done" /\ resp[p].status = 404
    /\ uid[p] = uid[q] /\ uid[p] \in issued /\ uid[p] \notin DOMAIN users

\* s has no whitespace at either end.
Trimmed(s) == s = <<>> \/ (s[1] \notin Whitespace /\ s[Len(s)] \notin Whitespace)

\* C12: in every state reached through Create and Update requests, every row
\* has an age from 1 to 150 and a first name, last name and city without
\* leading or trailing whitespace and of 2 to 50 characters.
C12_StoredFieldsInRange ==
  \A i \in DOMAIN users :
    /\ 1 <= users[i].age /\ users[i].age <= 150
    /\ \A k \in {"first_name", "last_name", "city"} :
         Trimmed(users[i][k]) /\ 2 <= Len(users[i][k]) /\ Len(users[i][k]) <= 50

\* A row holds fifty-character names and age 1, stored from a padded form,
\* while an Update with a first name of fifty-one characters was rejected.
C12_Witness ==
  /\ \E i \in DOMAIN users :
       /\ Len(users[i].first_name) = 50 /\ Len(users[i].city) = 50 /\ users[i].age = 1
  /\ \E p \in Procs :
       /\ Succeeded(p) /\ form[p].first_name # Strip(form[p].first_name)
  /\ \E q \in Procs :
       /\ route[q] = "update" /\ pc[q] = "done" /\ Len(form[q].first_name) = 51
       /\ resp[q].flash = "First name must be between 2 and 50 characters!"

\* C13 (as claimed): in every state reached through Create and Update
\* requests, every row's email has from 1 to 120 characters.
C13_StoredEmailLength ==
  \A i \in DOMAIN users : 1 <= Len(users[i].email) /\ Len(users[i].email) <= 120

====
